---- MODULE Spec2Model ----
(***************************************************************************)
(* Model of the blips_codegen generator (crates/blips_codegen/src/main.rs):*)
(* one run of main() reads an introspection schema, resolves the Query and *)
(* Mutation roots, writes one operation document per root field, invokes   *)
(* graphql-client once per emitted module, writes three aggregator files   *)
(* and finally invokes cargo fmt.                                          *)
(*                                                                         *)
(* Text is modelled as a sequence of tokens whose concatenation is the     *)
(* byte string.  Identifiers are sequences of one-character tokens, the    *)
(* fixed pieces of the format! templates are multi-character tokens.       *)
(***************************************************************************)
EXTENDS Integers, Sequences, FiniteSets, TLC

(***************************************************************************)
(* Characters                                                              *)
(***************************************************************************)
LowerChars ==
  <<"a","b","c","d","e","f","g","h","i","j","k","l","m",
    "n","o","p","q","r","s","t","u","v","w","x","y","z">>

UpperChars ==
  <<"A","B","C","D","E","F","G","H","I","J","K","L","M",
    "N","O","P","Q","R","S","T","U","V","W","X","Y","Z">>

Range(s) == { s[i] : i \in 1..Len(s) }

IndexIn(s, c) == CHOOSE i \in 1..Len(s) : s[i] = c

IsLower(c) == c \in Range(LowerChars)

IsUpper(c) == c \in Range(UpperChars)

IsAlphanumeric(c) == IsLower(c) \/ IsUpper(c)

ToLowerChar(c) == IF IsUpper(c) THEN LowerChars[IndexIn(UpperChars, c)] ELSE c

ToUpperChar(c) == IF IsLower(c) THEN UpperChars[IndexIn(LowerChars, c)] ELSE c

\* byte value of a character (ASCII)
Ord(c) ==
  IF IsUpper(c) THEN 64 + IndexIn(UpperChars, c)
  ELSE IF IsLower(c) THEN 96 + IndexIn(LowerChars, c)
  ELSE IF c = "_" THEN 95
  ELSE 0

ToLowercase(s) == [i \in 1..Len(s) |-> ToLowerChar(s[i])]

\* heck's capitalize: first character upper-cased, the rest lower-cased
Capitalize(s) ==
  [i \in 1..Len(s) |-> IF i = 1 THEN ToUpperChar(s[i]) ELSE ToLowerChar(s[i])]

RECURSIVE Concat(_)
Concat(ss) == IF ss = <<>> THEN <<>> ELSE Head(ss) \o Concat(Tail(ss))

RECURSIVE Join(_, _)
Join(ss, sep) ==
  IF ss = <<>> THEN <<>>
  ELSE IF Len(ss) = 1 THEN ss[1]
  ELSE ss[1] \o sep \o Join(Tail(ss), sep)

\* String ordering of Rust's Ord for String: lexicographic over bytes
RECURSIVE StrLeq(_, _)
StrLeq(a, b) ==
  IF a = <<>> THEN TRUE
  ELSE IF b = <<>> THEN FALSE
  ELSE IF Ord(a[1]) < Ord(b[1]) THEN TRUE
  ELSE IF Ord(a[1]) > Ord(b[1]) THEN FALSE
  ELSE StrLeq(Tail(a), Tail(b))

(***************************************************************************)
(* heck: word splitting and case conversion                                *)
(***************************************************************************)
\* s.split(|c| !c.is_alphanumeric())
RECURSIVE SplitNonAlnum(_, _)
SplitNonAlnum(s, cur) ==
  IF s = <<>> THEN <<cur>>
  ELSE IF IsAlphanumeric(s[1]) THEN SplitNonAlnum(Tail(s), Append(cur, s[1]))
  ELSE <<cur>> \o SplitNonAlnum(Tail(s), <<>>)

\* the while-loop of heck's transform over one non-empty word: i is the
\* position of the current character, init the start of the current piece
RECURSIVE WordPieces(_, _, _, _)
WordPieces(w, i, init, mode) ==
  IF i = Len(w) THEN << SubSeq(w, init, Len(w)) >>
  ELSE LET c == w[i]
           next == w[i + 1]
           next_mode == IF IsLower(c) THEN "Lowercase"
                        ELSE IF IsUpper(c) THEN "Uppercase"
                        ELSE mode
       IN IF next_mode = "Lowercase" /\ IsUpper(next)
            THEN << SubSeq(w, init, i) >> \o WordPieces(w, i + 1, i + 1, "Boundary")
          ELSE IF mode = "Uppercase" /\ IsUpper(c) /\ IsLower(next)
            THEN << SubSeq(w, init, i - 1) >> \o WordPieces(w, i + 1, i, "Boundary")
          ELSE WordPieces(w, i + 1, init, next_mode)

RECURSIVE PiecesOfWords(_)
PiecesOfWords(ws) ==
  IF ws = <<>> THEN <<>>
  ELSE (IF Head(ws) = <<>> THEN <<>> ELSE WordPieces(Head(ws), 1, 1, "Boundary"))
       \o PiecesOfWords(Tail(ws))

Words(s) == PiecesOfWords(SplitNonAlnum(s, <<>>))

to_snake_case(s) ==
  LET ws == Words(s)
  IN Join([i \in 1..Len(ws) |-> ToLowercase(ws[i])], <<"_">>)

to_pascal_case(s) ==
  LET ws == Words(s)
  IN Concat([i \in 1..Len(ws) |-> Capitalize(ws[i])])

(***************************************************************************)
(* sanitize_name: name.replace("OAuth", "Oauth")                           *)
(***************************************************************************)
OAuthFrom == <<"O","A","u","t","h">>

OAuthTo == <<"O","a","u","t","h">>

RECURSIVE sanitize_name(_)
sanitize_name(name) ==
  IF Len(name) < Len(OAuthFrom) THEN name
  ELSE IF SubSeq(name, 1, Len(OAuthFrom)) = OAuthFrom
    THEN OAuthTo \o sanitize_name(SubSeq(name, Len(OAuthFrom) + 1, Len(name)))
  ELSE << name[1] >> \o sanitize_name(Tail(name))

(***************************************************************************)
(* Text helpers                                                            *)
(***************************************************************************)
\* tokens that consist of white space only
WhitespaceTokens == { "\n", "\n    ", "\n            ", " " }

Min(S) == CHOOSE i \in S : \A j \in S : i <= j

Max(S) == CHOOSE i \in S : \A j \in S : i >= j

NonWhitespace(s) == { i \in 1..Len(s) : s[i] \notin WhitespaceTokens }

TrimStart(s) ==
  IF NonWhitespace(s) = {} THEN <<>> ELSE SubSeq(s, Min(NonWhitespace(s)), Len(s))

TrimEnd(s) ==
  IF NonWhitespace(s) = {} THEN <<>> ELSE SubSeq(s, 1, Max(NonWhitespace(s)))

\* str::trim
Trim(s) == TrimEnd(TrimStart(s))

(***************************************************************************)
(* Schema model: Option values are sequences of length 0 or 1              *)
(***************************************************************************)
None == <<>>

Some(v) == << v >>

NamedTags == { "Scalar", "Object", "Interface", "Union", "Enum", "InputObject" }

Named(tag, name) == [tag |-> tag, name |-> name, of_type |-> None]

NonNull(ty) == [tag |-> "NonNull", name |-> <<>>, of_type |-> Some(ty)]

List(ty) == [tag |-> "List", name |-> <<>>, of_type |-> Some(ty)]

RECURSIVE resolve_type_name(_)
resolve_type_name(ty) ==
  IF ty.tag \in NamedTags THEN ty.name
  ELSE resolve_type_name(ty.of_type[1])

RECURSIVE render_type_name(_)
render_type_name(ty) ==
  IF ty.tag \in NamedTags THEN ty.name
  ELSE IF ty.tag = "NonNull" THEN render_type_name(ty.of_type[1]) \o <<"!">>
  ELSE <<"[">> \o render_type_name(ty.of_type[1]) \o <<"]">>

Argument(name, ty) == [name |-> name, ty |-> ty]

Field(name, args, ty) == [name |-> name, args |-> args, ty |-> ty]

FullType(kind, name, fields) == [kind |-> kind, name |-> name, fields |-> fields]

\* schema.types.iter().find(|ty| ty.name().as_ref() == Some(&name))
RECURSIVE FindType(_, _)
FindType(types, name) ==
  IF types = <<>> THEN None
  ELSE IF Head(types).name = name THEN Some(Head(types))
  ELSE FindType(Tail(types), name)

\* schema.types.iter().find_map(|ty| match ty { Object(o) if o.name == name => Some(o), _ => None })
RECURSIVE FindObject(_, _)
FindObject(types, name) ==
  IF types = <<>> THEN None
  ELSE IF Head(types).kind = "OBJECT" /\ Head(types).name = name THEN Some(Head(types))
  ELSE FindObject(Tail(types), name)

\* QueryType::try_from without the Object pattern in find_map
QueryTypeTryFrom_AnyKind(schema) ==
  LET found == FindType(schema.types, schema.query_type.name)
  IN IF found = None THEN None ELSE Some(found[1].fields)

\* QueryType::try_from: Ok(fields) is Some(fields), Err is None
QueryTypeTryFrom(schema) ==
  LET found == FindObject(schema.types, schema.query_type.name)
  IN IF found = None THEN None ELSE Some(found[1].fields)

\* MutationType::from_schema: the result is [err, fields] where fields is an
\* Option; Ok(None) when the schema declares no mutation root
MutationTypeFromSchema(schema) ==
  IF schema.mutation_type = None THEN [err |-> FALSE, fields |-> None]
  ELSE LET found == FindObject(schema.types, schema.mutation_type[1].name)
       IN IF found = None THEN [err |-> TRUE, fields |-> None]
          ELSE [err |-> FALSE, fields |-> Some(found[1].fields)]

\* fields.extend(query ...); if let Some(mutation) { fields.extend(mutation ...) }
RootFields(query, mutation) ==
  [i \in 1..Len(query) |-> [operation |-> "Query", field |-> query[i]]]
  \o (IF mutation = None THEN <<>>
      ELSE [i \in 1..Len(mutation[1]) |-> [operation |-> "Mutation", field |-> mutation[1][i]]])

(***************************************************************************)
(* Body of the field loop                                                  *)
(***************************************************************************)
FieldTypeLookup(schema, field) == FindType(schema.types, resolve_type_name(field.ty))

SubFieldTypeLookup(schema, sub_field) == FindType(schema.types, resolve_type_name(sub_field.ty))

\* the lookups with a field-type match that rejects every kind but Object
LookupPanics_ObjectOnly(schema, field) ==
  LET field_type == FieldTypeLookup(schema, field)
  IN \/ field_type = None
     \/ field_type[1].kind # "OBJECT"
     \/ \E i \in 1..Len(field_type[1].fields) :
           SubFieldTypeLookup(schema, field_type[1].fields[i]) = None

\* the expect() on the field_type lookup or on a sub_field_type lookup fires
LookupPanics(schema, field) ==
  LET field_type == FieldTypeLookup(schema, field)
  IN \/ field_type = None
     \/ /\ field_type[1].kind = "OBJECT"
        /\ \E i \in 1..Len(field_type[1].fields) :
              SubFieldTypeLookup(schema, field_type[1].fields[i]) = None

\* the sub-field filter with Enum leaves let through as well
RECURSIVE ScalarSubFieldNames_WithEnums(_, _)
ScalarSubFieldNames_WithEnums(schema, sub_fields) ==
  IF sub_fields = <<>> THEN <<>>
  ELSE (IF SubFieldTypeLookup(schema, Head(sub_fields))[1].kind \in { "SCALAR", "ENUM" }
          THEN << Head(sub_fields).name >> ELSE <<>>)
       \o ScalarSubFieldNames_WithEnums(schema, Tail(sub_fields))

RECURSIVE ScalarSubFieldNames(_, _)
ScalarSubFieldNames(schema, sub_fields) ==
  IF sub_fields = <<>> THEN <<>>
  ELSE (IF SubFieldTypeLookup(schema, Head(sub_fields))[1].kind = "SCALAR"
          THEN << Head(sub_fields).name >> ELSE <<>>)
       \o ScalarSubFieldNames(schema, Tail(sub_fields))

\* fragment_field_names after the if-let over the looked-up field type
fragment_field_names(schema, field) ==
  LET field_type == FieldTypeLookup(schema, field)[1]
  IN IF field_type.kind = "OBJECT"
       THEN ScalarSubFieldNames(schema, field_type.fields)
       ELSE <<>>

args_list(field) ==
  Join([i \in 1..Len(field.args) |->
          <<"$">> \o to_snake_case(field.args[i].name) \o <<": ">>
          \o render_type_name(field.args[i].ty)],
       <<", ">>)

\* the applied arguments with the converted name on both sides
applied_args_list_Converted(field) ==
  Join([i \in 1..Len(field.args) |->
          to_snake_case(field.args[i].name) \o <<": ">> \o <<"$">>
          \o to_snake_case(field.args[i].name)],
       <<", ">>)

applied_args_list(field) ==
  Join([i \in 1..Len(field.args) |->
          field.args[i].name \o <<": ">> \o <<"$">> \o to_snake_case(field.args[i].name)],
       <<", ">>)

Parenthesized(has_args, list) == IF has_args THEN <<"(">> \o list \o <<")">> ELSE <<>>

OperationKeyword(operation) == IF operation = "Query" THEN "query" ELSE "mutation"

\* the operation document: format!(...) of the template, then trim()
contents(schema, operation, field) ==
  LET has_args == field.args # <<>>
      query_name == to_pascal_case(sanitize_name(field.name))
      fragment_name == to_pascal_case(resolve_type_name(field.ty))
      fragment_fields == Join(fragment_field_names(schema, field), <<"\n    ">>)
  IN Trim(<<"\n">>
          \o << OperationKeyword(operation) >> \o <<" ">> \o query_name
          \o Parenthesized(has_args, args_list(field))
          \o <<" {\n    ">> \o field.name
          \o Parenthesized(has_args, applied_args_list(field))
          \o <<" {\n        ...">> \o fragment_name
          \o <<"\n    }\n}\n\nfragment ">> \o fragment_name
          \o <<" on ">> \o fragment_name
          \o <<" {\n    __typename\n    ">> \o fragment_fields
          \o <<"\n}">>
          \o <<"\n            ">>)

rust_module_name(field) == to_snake_case(sanitize_name(field.name))

generated_client_impl(field) ==
  Trim(<<"\n    ">>
       \o <<"pub async fn ">> \o to_snake_case(sanitize_name(field.name))
       \o <<"(\n        &self,\n        variables: crate::graphql::">>
       \o rust_module_name(field)
       \o <<"::Variables,\n    ) -> Result<crate::graphql::">>
       \o rust_module_name(field)
       \o <<"::ResponseData, reqwest::Error> {\n        let response_body = self\n            .post_graphql::<crate::graphql::">>
       \o to_pascal_case(sanitize_name(field.name))
       \o <<">(variables)\n            .await?;\n\n        Ok(response_body.data.expect(\"No data\"))\n    }">>
       \o <<"\n            ">>)

(***************************************************************************)
(* After the field loop                                                    *)
(***************************************************************************)
RECURSIVE InsertSorted(_, _)
InsertSorted(sorted, m) ==
  IF sorted = <<>> THEN << m >>
  ELSE IF StrLeq(m, Head(sorted)) THEN << m >> \o sorted
  ELSE << Head(sorted) >> \o InsertSorted(Tail(sorted), m)

\* the module list left in emission order
SortModules_Unsorted(modules) == modules

\* emitted_graphql_modules.sort_unstable()
RECURSIVE SortModules(_)
SortModules(modules) ==
  IF modules = <<>> THEN <<>>
  ELSE InsertSorted(SortModules(Tail(modules)), Head(modules))

DocPath(module) ==
  <<"crates/blips/src/graphql/generated/">> \o module \o <<".graphql">>

GeneratedModulePath == <<"crates/blips/src/graphql/generated.rs">>

GraphqlModulePath == <<"crates/blips/src/graphql.rs">>

ClientGeneratedPath == <<"crates/blips/src/client_generated.rs">>

AggregatorPaths == { GeneratedModulePath, GraphqlModulePath, ClientGeneratedPath }

\* contents of generated.rs
generated_module_contents(modules) ==
  Join([i \in 1..Len(modules) |-> <<"pub mod ">> \o modules[i] \o <<";">>], <<"\n">>)
  \o <<"\n">>

\* contents of graphql.rs
graphql_module_contents(modules) ==
  Trim(<<"\n">>
       \o <<"mod custom_scalars;\nmod generated;\n\n// Auto-generated:">>
       \o <<"\n">>
       \o Join([i \in 1..Len(modules) |->
                  <<"pub use generated::">> \o modules[i] \o <<"::*;">>], <<"\n">>)
       \o <<"\n            ">>)

\* contents of client_generated.rs
client_file_contents(impls) ==
  Trim(<<"\n">>
       \o <<"impl crate::BlipsClient {">> \o <<"\n    ">>
       \o Join(impls, <<"\n\n">>)
       \o <<"\n">> \o <<"}">>
       \o <<"\n            ">>)

\* File::create on a path that may exist, then write_all appending to it
WriteFile_Append(fs, path, text) ==
  [p \in (DOMAIN fs) \cup {path} |->
     IF p = path THEN (IF path \in DOMAIN fs THEN fs[path] ELSE <<>>) \o text ELSE fs[p]]

\* fs with path created or truncated and text written to it
WriteFile(fs, path, text) ==
  [p \in (DOMAIN fs) \cup {path} |-> IF p = path THEN text ELSE fs[p]]

(***************************************************************************)
(* Input schemas                                                           *)
(***************************************************************************)
MaxQueryFields == 2

MaxMutationFields == 1

MaxRuns == 2

N_ID == <<"I","D">>

N_String == <<"S","t","r","i","n","g">>

N_Task == <<"T","a","s","k">>

N_User == <<"U","s","e","r">>

N_Color == <<"C","o","l","o","r">>

N_Node == <<"N","o","d","e">>

N_Hit == <<"H","i","t">>

N_Filter == <<"F","i","l","t","e","r">>

N_Broken == <<"B","r","o","k","e","n">>

N_Ghost == <<"G","h","o","s","t">>

N_Query == <<"Q","u","e","r","y">>

N_Mutation == <<"M","u","t","a","t","i","o","n">>

N_Absent == <<"A","b","s","e","n","t">>

TaskFields ==
  << Field(<<"i","d">>, <<>>, NonNull(Named("Scalar", N_ID))),
     Field(<<"o","w","n","e","r">>, <<>>, Named("Object", N_User)),
     Field(<<"d","u","e","D","a","t","e">>, <<>>, Named("Scalar", N_String)),
     Field(<<"c","o","l","o","r">>, <<>>, NonNull(Named("Enum", N_Color))),
     Field(<<"g","r","o","u","p","I","d","s">>, <<>>,
           NonNull(List(NonNull(Named("Scalar", N_ID))))),
     Field(<<"n","o","d","e","s">>, <<>>, List(Named("Interface", N_Node))),
     Field(<<"h","i","t">>, <<>>, Named("Union", N_Hit)),
     Field(<<"f","i","l","t","e","r">>, <<>>, Named("InputObject", N_Filter)),
     Field(<<"n","a","m","e">>, <<>>, NonNull(Named("Scalar", N_String))) >>

BrokenFields ==
  << Field(<<"i","d">>, <<>>, Named("Scalar", N_ID)),
     Field(<<"g","o","n","e">>, <<>>, NonNull(Named("Object", N_Ghost))) >>

\* the root fields a schema of the model may declare
RootFieldPool ==
  { Field(<<"u","n","c","o","m","p","l","e","t","e","T","a","s","k">>,
          << Argument(<<"t","a","s","k","I","d">>, NonNull(Named("Scalar", N_ID))),
             Argument(<<"g","r","o","u","p","I","d","s">>,
                      List(NonNull(Named("Scalar", N_ID)))) >>,
          NonNull(Named("Object", N_Task))),
    Field(<<"m","y","O","A","u","t","h">>, <<>>, NonNull(Named("Scalar", N_String))),
    Field(<<"m","y","_","o","a","u","t","h">>,
          << Argument(<<"s","h","a","d","e">>, Named("Enum", N_Color)) >>,
          List(NonNull(Named("Enum", N_Color)))),
    Field(<<"g","h","o","s","t">>, <<>>, Named("Object", N_Ghost)),
    Field(<<"b","r","o","k","e","n">>, <<>>, Named("Object", N_Broken)) }

\* sequences without repetition of at most n root fields (a field name is
\* unique within its owning type)
FieldSeqs(n) ==
  { fs \in UNION { [1..k -> RootFieldPool] : k \in 0..n } :
      \A i, j \in 1..Len(fs) : i # j => fs[i] # fs[j] }

TypeCatalogue(query_fields, mutation_fields) ==
  << FullType("SCALAR", N_ID, <<>>),
     FullType("SCALAR", N_String, <<>>),
     FullType("INTERFACE", N_Node, <<>>),
     FullType("OBJECT", N_Query, query_fields),
     FullType("OBJECT", N_Mutation, mutation_fields),
     FullType("OBJECT", N_Task, TaskFields),
     FullType("OBJECT", N_User, <<>>),
     FullType("OBJECT", N_Broken, BrokenFields),
     FullType("ENUM", N_Color, <<>>),
     FullType("UNION", N_Hit, <<>>),
     FullType("INPUT_OBJECT", N_Filter, <<>>) >>

Schema(query_name, mutation_type, query_fields, mutation_fields) ==
  [ query_type |-> [name |-> query_name],
    mutation_type |-> mutation_type,
    types |-> TypeCatalogue(query_fields, mutation_fields) ]

\* a root name that names the Object of that role, a type of another kind,
\* or no type at all
QueryRootNames == { N_Query, N_Node, N_Absent }

MutationRoots == { None, Some([name |-> N_Mutation]), Some([name |-> N_Node]),
                   Some([name |-> N_Absent]) }

\* the fields of a Mutation Object that is not the declared root are never
\* read, and neither are the root fields once the Query root is missing
Schemas ==
  LET All == { Schema(qn, mt, qf, mf) :
                 qn \in QueryRootNames, mt \in MutationRoots,
                 qf \in FieldSeqs(MaxQueryFields), mf \in FieldSeqs(MaxMutationFields) }
      FieldsOf(s, name) == FindObject(s.types, name)[1].fields
  IN { s \in All :
         /\ s.query_type.name = N_Query \/ Len(FieldsOf(s, N_Query)) <= 1
         /\ s.mutation_type = Some([name |-> N_Mutation]) \/ FieldsOf(s, N_Mutation) = <<>> }

(***************************************************************************)
(* State of the program and of the file system it writes to                *)
(***************************************************************************)
VARIABLES
  schema,                   \* the contents of schema.json
  run,                      \* number of the current invocation of main
  pc,                       \* position of main
  fields,                   \* Vec of (operation, field) built at lines 129-144
  idx,                      \* number of completed iterations of the field loop
  emitted_graphql_modules,
  generated_client_impls,
  gen_idx,                  \* number of completed graphql-client invocations
  files,                    \* the files main has written: path -> contents
  exit,                     \* "running", or how main ended: "ok", "err", "panic"
  stderr,                   \* what main itself printed to standard error
  log,                      \* side effects of this run, in order
  nonzero_exit,             \* an external tool of this run exited with a status # 0
  finished                  \* exit status and files at the end of earlier runs

vars == << schema, run, pc, fields, idx, emitted_graphql_modules,
           generated_client_impls, gen_idx, files, exit, stderr, log,
           nonzero_exit, finished >>

locals == << fields, idx, emitted_graphql_modules, generated_client_impls, gen_idx >>

NoFiles == [p \in {} |-> <<>>]

Created(path) == [kind |-> "create", target |-> path]

Spawned(program, arg) == [kind |-> "spawn", target |-> << program >> \o arg]

Init ==
  /\ schema \in Schemas
  /\ run = 1
  /\ pc = "load"
  /\ fields = <<>>
  /\ idx = 0
  /\ emitted_graphql_modules = <<>>
  /\ generated_client_impls = <<>>
  /\ gen_idx = 0
  /\ files = NoFiles
  /\ exit = "running"
  /\ stderr = <<>>
  /\ log = <<>>
  /\ nonzero_exit = FALSE
  /\ finished = <<>>

\* main returns Err(e): the runtime prints the error and exits with status 1
ReturnErr(message) ==
  /\ pc' = "done"
  /\ exit' = "err"
  /\ stderr' = <<"Error: ">> \o message

\* an expect() fails: the panic message is printed, exit status 101
Panic(message) ==
  /\ pc' = "done"
  /\ exit' = "panic"
  /\ stderr' = <<"thread 'main' panicked: ">> \o message

\* File::open("schema.json")? and serde_json::from_reader(buf_reader)?
LoadSchema ==
  /\ pc = "load"
  /\ \E loaded \in BOOLEAN :
       IF loaded
         THEN /\ pc' = "roots"
              /\ UNCHANGED << exit, stderr >>
         ELSE ReturnErr(<<"schema.json">>)
  /\ UNCHANGED << schema, run, locals, files, log, nonzero_exit, finished >>

\* QueryType::try_from(&schema)?, MutationType::from_schema(&schema)? and the
\* construction of the fields vector
ResolveRoots ==
  /\ pc = "roots"
  /\ LET query == QueryTypeTryFrom(schema)
         mutation == MutationTypeFromSchema(schema)
     IN IF query = None
          THEN /\ ReturnErr(<<"No Query type found">>)
               /\ UNCHANGED fields
        ELSE IF mutation.err
          THEN /\ ReturnErr(<<"No Mutation type found">>)
               /\ UNCHANGED fields
        ELSE /\ fields' = RootFields(query[1], mutation.fields)
             /\ pc' = "fields"
             /\ UNCHANGED << exit, stderr >>
  /\ UNCHANGED << schema, run, idx, emitted_graphql_modules, generated_client_impls,
                  gen_idx, files, log, nonzero_exit, finished >>

\* one iteration of `for (operation, field) in fields`
ProcessField ==
  /\ pc = "fields"
  /\ idx < Len(fields)
  /\ LET operation == fields[idx + 1].operation
         field == fields[idx + 1].field
         path == DocPath(rust_module_name(field))
     IN IF LookupPanics(schema, field)
          THEN /\ Panic(<<"No type found for ">> \o resolve_type_name(field.ty))
               /\ UNCHANGED << idx, emitted_graphql_modules, generated_client_impls,
                               files, log >>
          ELSE \E io \in { "ok", "create_err", "write_err" } :
                 CASE io = "create_err" ->
                        /\ ReturnErr(path)
                        /\ UNCHANGED << idx, emitted_graphql_modules,
                                        generated_client_impls, files, log >>
                   [] io = "write_err" ->
                        /\ ReturnErr(path)
                        /\ files' = WriteFile(files, path, <<>>)
                        /\ log' = Append(log, Created(path))
                        /\ UNCHANGED << idx, emitted_graphql_modules,
                                        generated_client_impls >>
                   [] io = "ok" ->
                        /\ files' = WriteFile(files, path, contents(schema, operation, field))
                        /\ log' = Append(log, Created(path))
                        /\ emitted_graphql_modules' =
                             Append(emitted_graphql_modules, rust_module_name(field))
                        /\ generated_client_impls' =
                             Append(generated_client_impls, generated_client_impl(field))
                        /\ idx' = idx + 1
                        /\ UNCHANGED << pc, exit, stderr >>
  /\ UNCHANGED << schema, run, fields, gen_idx, nonzero_exit, finished >>

\* the field loop is over: emitted_graphql_modules.sort_unstable()
EndFieldLoop ==
  /\ pc = "fields"
  /\ idx = Len(fields)
  /\ emitted_graphql_modules' = SortModules(emitted_graphql_modules)
  /\ pc' = "generate"
  /\ UNCHANGED << schema, run, fields, idx, generated_client_impls, gen_idx, files,
                  exit, stderr, log, nonzero_exit, finished >>

\* one iteration of the graphql-client loop: generate_command.status()?
\* status() is Err only when the program cannot be started
InvokeGenerate ==
  /\ pc = "generate"
  /\ gen_idx < Len(emitted_graphql_modules)
  /\ LET module == emitted_graphql_modules[gen_idx + 1]
     IN \E outcome \in { "exit_zero", "exit_nonzero", "spawn_err" } :
          IF outcome = "spawn_err"
            THEN /\ ReturnErr(<<"graphql-client">>)
                 /\ UNCHANGED << gen_idx, log, nonzero_exit >>
            ELSE /\ log' = Append(log, Spawned("graphql-client", DocPath(module)))
                 /\ nonzero_exit' = (nonzero_exit \/ outcome = "exit_nonzero")
                 /\ gen_idx' = gen_idx + 1
                 /\ UNCHANGED << pc, exit, stderr >>
  /\ UNCHANGED << schema, run, fields, idx, emitted_graphql_modules,
                  generated_client_impls, files, finished >>

\* File::create(path)? followed by write_all(text)?, then main goes on at next
CreateAndWrite(path, text, next) ==
  \E io \in { "ok", "create_err", "write_err" } :
    CASE io = "create_err" ->
           /\ ReturnErr(path)
           /\ UNCHANGED << files, log >>
      [] io = "write_err" ->
           /\ ReturnErr(path)
           /\ files' = WriteFile(files, path, <<>>)
           /\ log' = Append(log, Created(path))
      [] io = "ok" ->
           /\ files' = WriteFile(files, path, text)
           /\ log' = Append(log, Created(path))
           /\ pc' = next
           /\ UNCHANGED << exit, stderr >>

\* generated.rs written without waiting for the end of the graphql-client loop
WriteGeneratedModuleFile_Early ==
  /\ pc = "generate"
  /\ CreateAndWrite(GeneratedModulePath,
                    generated_module_contents(emitted_graphql_modules), "graphql_rs")
  /\ UNCHANGED << schema, run, locals, nonzero_exit, finished >>

\* generated.rs, after the last graphql-client invocation
WriteGeneratedModuleFile ==
  /\ pc = "generate"
  /\ gen_idx = Len(emitted_graphql_modules)
  /\ CreateAndWrite(GeneratedModulePath,
                    generated_module_contents(emitted_graphql_modules), "graphql_rs")
  /\ UNCHANGED << schema, run, locals, nonzero_exit, finished >>

\* graphql.rs
WriteGraphqlModuleFile ==
  /\ pc = "graphql_rs"
  /\ CreateAndWrite(GraphqlModulePath,
                    graphql_module_contents(emitted_graphql_modules), "client_rs")
  /\ UNCHANGED << schema, run, locals, nonzero_exit, finished >>

\* client_generated.rs
WriteClientFile ==
  /\ pc = "client_rs"
  /\ CreateAndWrite(ClientGeneratedPath,
                    client_file_contents(generated_client_impls), "fmt")
  /\ UNCHANGED << schema, run, locals, nonzero_exit, finished >>

\* Command::new("cargo").arg("fmt").status()?; Ok(())
CargoFmt ==
  /\ pc = "fmt"
  /\ \E outcome \in { "exit_zero", "exit_nonzero", "spawn_err" } :
       IF outcome = "spawn_err"
         THEN /\ ReturnErr(<<"cargo">>)
              /\ UNCHANGED << log, nonzero_exit >>
         ELSE /\ log' = Append(log, Spawned("cargo", <<"fmt">>))
              /\ nonzero_exit' = (nonzero_exit \/ outcome = "exit_nonzero")
              /\ pc' = "done"
              /\ exit' = "ok"
              /\ UNCHANGED stderr
  /\ UNCHANGED << schema, run, locals, files, finished >>

\* after a run that ended with status 0 the generator is started again on the
\* unchanged schema.json; the files on disk stay, everything else starts afresh
Rerun ==
  /\ pc = "done"
  /\ exit = "ok"
  /\ run < MaxRuns
  /\ run' = run + 1
  /\ finished' = Append(finished, [exit |-> exit, files |-> files])
  /\ pc' = "load"
  /\ fields' = <<>>
  /\ idx' = 0
  /\ emitted_graphql_modules' = <<>>
  /\ generated_client_impls' = <<>>
  /\ gen_idx' = 0
  /\ exit' = "running"
  /\ stderr' = <<>>
  /\ log' = <<>>
  /\ nonzero_exit' = FALSE
  /\ UNCHANGED << schema, files >>

Next ==
  \/ LoadSchema
  \/ ResolveRoots
  \/ ProcessField
  \/ EndFieldLoop
  \/ InvokeGenerate
  \/ WriteGeneratedModuleFile
  \/ WriteGraphqlModuleFile
  \/ WriteClientFile
  \/ CargoFmt
  \/ Rerun

Spec == Init /\ [][Next]_vars

TypeOK ==
  /\ pc \in { "load", "roots", "fields", "generate", "graphql_rs", "client_rs", "fmt", "done" }
  /\ exit \in { "running", "ok", "err", "panic" }
  /\ (exit = "running") <=> (pc # "done")
  /\ run \in 1..MaxRuns
  /\ idx \in 0..Len(fields)
  /\ gen_idx \in 0..Len(emitted_graphql_modules)

(***************************************************************************)
(* Reading the written text back                                           *)
(***************************************************************************)
\* position of the first occurrence of tok in s at or after from, 0 if none
IndexFrom(s, tok, from) ==
  LET at == { i \in from..Len(s) : s[i] = tok }
  IN IF at = {} THEN 0 ELSE Min(at)

\* the pieces of s between occurrences of the token sep; no piece for empty s
RECURSIVE SplitOn(_, _)
SplitOn(s, sep) ==
  IF s = <<>> THEN <<>>
  ELSE LET i == IndexFrom(s, sep, 1)
       IN IF i = 0 THEN << s >>
          ELSE IF i = Len(s) THEN << SubSeq(s, 1, i - 1), <<>> >>
          ELSE << SubSeq(s, 1, i - 1) >> \o SplitOn(SubSeq(s, i + 1, Len(s)), sep)

\* the text strictly between the first open at or after from and the next close
Enclosed(s, open, close, from) ==
  LET i == IndexFrom(s, open, from)
      j == IndexFrom(s, close, i + 1)
  IN SubSeq(s, i + 1, j - 1)

IsIdentChar(c) == IsAlphanumeric(c) \/ c = "_"

\* the identifier that starts at position from
IdentAt(s, from) ==
  LET stop == { i \in from..Len(s) : ~IsIdentChar(s[i]) }
  IN SubSeq(s, from, IF stop = {} THEN Len(s) ELSE Min(stop) - 1)

Count(s, v) == Cardinality({ i \in 1..Len(s) : s[i] = v })

SameBag(s, t) ==
  /\ Len(s) = Len(t)
  /\ \A v \in Range(s) \cup Range(t) : Count(s, v) = Count(t, v)

Ascending(names) == \A i, j \in 1..Len(names) : i < j => StrLeq(names[i], names[j])

RECURSIVE Leaf(_)
Leaf(ty) == IF ty.of_type = None THEN ty ELSE Leaf(ty.of_type[1])

HasObjectNamed(name) ==
  \E i \in 1..Len(schema.types) :
    schema.types[i].kind = "OBJECT" /\ schema.types[i].name = name

HasTypeNamed(name) == \E i \in 1..Len(schema.types) : schema.types[i].name = name

KindNamed(name) ==
  schema.types[CHOOSE i \in 1..Len(schema.types) : schema.types[i].name = name].kind

DeclaredFields(name) ==
  schema.types[CHOOSE i \in 1..Len(schema.types) :
                 schema.types[i].kind = "OBJECT" /\ schema.types[i].name = name].fields

\* the root fields in declaration order, Query root first
DeclaredRootFields ==
  DeclaredFields(schema.query_type.name)
  \o (IF schema.mutation_type = None THEN <<>>
      ELSE DeclaredFields(schema.mutation_type[1].name))

RootMissing ==
  \/ ~HasObjectNamed(schema.query_type.name)
  \/ schema.mutation_type # None /\ ~HasObjectNamed(schema.mutation_type[1].name)

\* the files as they were when the current run started
FilesAtStart == IF finished = <<>> THEN NoFiles ELSE finished[Len(finished)].files

IsDocCreate(e) == e.kind = "create" /\ e.target \notin AggregatorPaths

IsAggregatorCreate(e) == e.kind = "create" /\ e.target \in AggregatorPaths

IsGenerate(e) == e.kind = "spawn" /\ e.target[1] = "graphql-client"

IsFmt(e) == e.kind = "spawn" /\ e.target[1] = "cargo"

LogWhere(P(_)) == { i \in 1..Len(log) : P(log[i]) }

\* the root field whose iteration of the field loop completed last
LastField == fields[idx].field

LastDoc == files[DocPath(to_snake_case(sanitize_name(LastField.name)))]

JustProcessed == pc = "fields" /\ idx >= 1

(***************************************************************************)
(* C1: when the declared Query root name, or a declared Mutation root      *)
(* name, matches no Object type, the run never gets past root resolution:  *)
(* it ends with an error, and no output file has been created or written   *)
(* and no external tool has been started.                                  *)
(***************************************************************************)
C1_MissingRootAbortsBeforeOutput ==
  (RootMissing /\ pc \notin { "load", "roots" }) =>
    /\ pc = "done"
    /\ exit = "err"
    /\ stderr[2] \in { "schema.json", "No Query type found", "No Mutation type found" }
    /\ log = <<>>
    /\ files = FilesAtStart
    /\ files = NoFiles

C1_Witness ==
  /\ RootMissing
  /\ HasObjectNamed(schema.query_type.name)
  /\ DeclaredFields(schema.query_type.name) # <<>>
  /\ pc = "done"
  /\ stderr = <<"Error: ", "No Mutation type found">>

(***************************************************************************)
(* C2 (as claimed): when a leaf-type lookup fails, the run aborts and no   *)
(* operation document has been written by that run.                        *)
(***************************************************************************)
C2_NoDocumentWrittenOnLookupFailure ==
  (pc = "done" /\ exit = "panic") => LogWhere(IsDocCreate) = {}

(***************************************************************************)
(* C3 (as claimed): when graphql-client or cargo fmt was started and       *)
(* exited with a non-zero status, the run surfaces it: it prints a warning *)
(* or ends with a non-zero status itself, and the operation documents it   *)
(* wrote are still there.                                                  *)
(***************************************************************************)
C3_ToolFailureSurfaced ==
  (pc = "done" /\ nonzero_exit) =>
    /\ exit # "ok" \/ stderr # <<>>
    /\ \A i \in LogWhere(IsDocCreate) : log[i].target \in DOMAIN files

(***************************************************************************)
(* C4 (as claimed): after a successful run the number of distinct          *)
(* operation-document files written equals the number of root fields.      *)
(***************************************************************************)
C4_OneDocumentPerRootField ==
  (pc = "done" /\ exit = "ok") =>
    Cardinality({ log[i].target : i \in LogWhere(IsDocCreate) }) = Len(DeclaredRootFields)

(***************************************************************************)
(* C5: after a successful run the module index lists the module names of   *)
(* all processed fields in ascending byte order, whatever the declaration  *)
(* order, and the client-implementation file holds one method per root     *)
(* field in processing order: Query fields in schema order, then Mutation  *)
(* fields in schema order.                                                 *)
(***************************************************************************)
\* the text without the final newline, if it has one
ChopNewline(text) ==
  IF text # <<>> /\ text[Len(text)] = "\n" THEN SubSeq(text, 1, Len(text) - 1) ELSE text

IndexedModules ==
  LET lines == SplitOn(ChopNewline(files[GeneratedModulePath]), "\n")
  IN [i \in 1..Len(lines) |-> IdentAt(lines[i], 2)]

IndexWellFormed ==
  LET lines == SplitOn(ChopNewline(files[GeneratedModulePath]), "\n")
  IN \A i \in 1..Len(lines) :
       lines[i] = <<"pub mod ">> \o IdentAt(lines[i], 2) \o <<";">>

ClientMethods ==
  LET text == files[ClientGeneratedPath]
  IN SplitOn(SubSeq(text, 3, Len(text) - 2), "\n\n")

ClientMethodNames ==
  [i \in 1..Len(ClientMethods) |->
     IF ClientMethods[i][1] = "pub async fn " THEN IdentAt(ClientMethods[i], 2) ELSE <<>>]

ExpectedModuleNames ==
  [i \in 1..Len(DeclaredRootFields) |->
     to_snake_case(sanitize_name(DeclaredRootFields[i].name))]

C5_IndexSortedClientInFieldOrder ==
  (pc = "done" /\ exit = "ok") =>
    /\ IndexWellFormed
    /\ Ascending(IndexedModules)
    /\ SameBag(IndexedModules, ExpectedModuleNames)
    /\ Len(IndexedModules) = Len(ExpectedModuleNames)
    /\ ClientMethodNames = ExpectedModuleNames

\* a successful run over two Query fields declared in descending order and a
\* Mutation field that sorts after the second of them
C5_Witness ==
  /\ pc = "done"
  /\ exit = "ok"
  /\ Len(ExpectedModuleNames) = 3
  /\ ~StrLeq(ExpectedModuleNames[1], ExpectedModuleNames[2])
  /\ ~StrLeq(ExpectedModuleNames[3], ExpectedModuleNames[2])
  /\ fields[3].operation = "Mutation"

(***************************************************************************)
(* C6: for a root field with arguments, the variable-declaration clause    *)
(* and the applied-argument clause of its document have one entry per      *)
(* argument, in argument order; the Nth declaration is `$` followed by the *)
(* snake_case of the Nth argument name and its rendered type, the Nth      *)
(* application binds the original Nth argument name to that variable.      *)
(***************************************************************************)
DeclaredVariables == SplitOn(Enclosed(LastDoc, "(", ")", 1), ", ")

AppliedArguments ==
  SplitOn(Enclosed(LastDoc, "(", ")", IndexFrom(LastDoc, ")", 1) + 1), ", ")

C6_ArgumentsAligned ==
  (JustProcessed /\ LastField.args # <<>>) =>
    /\ Len(DeclaredVariables) = Len(LastField.args)
    /\ Len(AppliedArguments) = Len(LastField.args)
    /\ \A n \in 1..Len(LastField.args) :
         LET arg == LastField.args[n]
             variable == <<"$">> \o to_snake_case(arg.name)
         IN /\ DeclaredVariables[n] = variable \o <<": ">> \o render_type_name(arg.ty)
            /\ AppliedArguments[n] = arg.name \o <<": ">> \o variable

\* a field with two arguments whose names change under snake_case
C6_Witness ==
  /\ JustProcessed
  /\ Len(LastField.args) = 2
  /\ \A n \in 1..2 : to_snake_case(LastField.args[n].name) # LastField.args[n].name

(***************************************************************************)
(* C7: for a root field whose leaf result type is an Object, the fields    *)
(* selected in the fragment are exactly the sub-fields of that Object      *)
(* whose leaf type is a Scalar, in declaration order; sub-fields with an   *)
(* Object, Interface, Union, Enum or InputObject leaf are left out and the *)
(* document is still written.                                              *)
(***************************************************************************)
SelectedFields ==
  LET from == IndexFrom(LastDoc, " {\n    __typename\n    ", 1)
  IN SplitOn(SubSeq(LastDoc, from + 1, Len(LastDoc) - 1), "\n    ")

RECURSIVE ScalarLeafNames(_)
ScalarLeafNames(sub_fields) ==
  IF sub_fields = <<>> THEN <<>>
  ELSE (IF Leaf(Head(sub_fields).ty).tag = "Scalar" THEN << Head(sub_fields).name >> ELSE <<>>)
       \o ScalarLeafNames(Tail(sub_fields))

C7_FragmentSelectsScalarSubFields ==
  (JustProcessed /\ Leaf(LastField.ty).tag = "Object") =>
    /\ LastDoc[Len(LastDoc)] = "\n}"
    /\ SelectedFields = ScalarLeafNames(DeclaredFields(Leaf(LastField.ty).name))

\* an Object result with sub-fields of all six kinds, some behind wrappers
C7_Witness ==
  /\ JustProcessed
  /\ Leaf(LastField.ty).tag = "Object"
  /\ LastField.ty.tag = "NonNull"
  /\ LET sub_fields == DeclaredFields(Leaf(LastField.ty).name)
     IN /\ { Leaf(sub_fields[i].ty).tag : i \in 1..Len(sub_fields) } = NamedTags
        /\ Len(SelectedFields) = 4
        /\ Len(SelectedFields) < Len(sub_fields)

(***************************************************************************)
(* C8: when a run has succeeded and the generator is run again on the      *)
(* unchanged schema, a successful second run leaves every output file with *)
(* exactly the bytes the first run wrote to it, and creates no other file. *)
(***************************************************************************)
C8_SecondRunLeavesFilesIdentical ==
  (pc = "done" /\ exit = "ok" /\ finished # <<>>) =>
    /\ DOMAIN files = DOMAIN finished[Len(finished)].files
    /\ \A p \in DOMAIN files : files[p] = finished[Len(finished)].files[p]

\* a second run has rewritten two operation documents (one of them shared by
\* two root fields) and the three aggregator files
C8_Witness ==
  /\ pc = "done"
  /\ exit = "ok"
  /\ run = 2
  /\ Len(fields) = 3
  /\ Cardinality(LogWhere(IsDocCreate)) = 3
  /\ Cardinality(DOMAIN files) = 5

(***************************************************************************)
(* C9: in every run the operation documents are all written before the     *)
(* first graphql-client invocation, graphql-client is invoked once per     *)
(* emitted module in sorted order before any aggregator file is created,   *)
(* and cargo fmt is started last; so a run that ends before the field loop *)
(* and the graphql-client loop are complete creates or overwrites none of  *)
(* the three aggregator files.                                             *)
(***************************************************************************)
GenerateTargets ==
  LET RECURSIVE Targets(_)
      Targets(l) ==
        IF l = <<>> THEN <<>>
        ELSE (IF IsGenerate(Head(l)) THEN << SubSeq(Head(l).target, 2, Len(Head(l).target)) >>
              ELSE <<>>) \o Targets(Tail(l))
  IN Targets(log)

C9_PipelineOrder ==
  LET docs == LogWhere(IsDocCreate)
      gens == LogWhere(IsGenerate)
      aggs == LogWhere(IsAggregatorCreate)
      fmts == LogWhere(IsFmt)
      targets == GenerateTargets
      modules == [i \in 1..Len(targets) |-> IdentAt(targets[i], 2)]
  IN /\ \A d \in docs : \A g \in gens \cup aggs \cup fmts : d < g
     /\ \A g \in gens : \A a \in aggs \cup fmts : g < a
     /\ \A a \in aggs : \A f \in fmts : a < f
     /\ fmts \subseteq { Len(log) }
     /\ Ascending(modules)
     /\ \A i \in 1..Len(targets) : targets[i] = DocPath(modules[i])
     /\ IF aggs # {}
          THEN /\ Cardinality(docs) = Len(DeclaredRootFields)
               /\ SameBag(modules, ExpectedModuleNames)
          ELSE \A p \in AggregatorPaths :
                 /\ p \in DOMAIN files <=> p \in DOMAIN FilesAtStart
                 /\ p \in DOMAIN files => files[p] = FilesAtStart[p]

\* a complete run over three root fields, with every kind of step in its log
C9_Witness ==
  /\ pc = "done"
  /\ exit = "ok"
  /\ Len(GenerateTargets) = 3
  /\ Cardinality(LogWhere(IsAggregatorCreate)) = 3
  /\ IsFmt(log[Len(log)])

(***************************************************************************)
(* C10: a root field whose leaf result type is in the type list but is not *)
(* an Object does not make generation fail: the run panics only on a type  *)
(* name that is absent, and the field's document is written with a spread  *)
(* of the fragment named after the PascalCase leaf type name and a         *)
(* fragment body that selects __typename only; the field adds one module   *)
(* name and one client method.                                             *)
(***************************************************************************)
NonObjectResult(field) ==
  /\ HasTypeNamed(Leaf(field.ty).name)
  /\ KindNamed(Leaf(field.ty).name) # "OBJECT"

C10_NonObjectResultGenerates ==
  /\ (pc = "done" /\ exit = "panic") => ~NonObjectResult(fields[idx + 1].field)
  /\ (JustProcessed /\ NonObjectResult(LastField)) =>
       LET fragment == to_pascal_case(Leaf(LastField.ty).name)
           spread == IndexFrom(LastDoc, " {\n        ...", 1)
           body == IndexFrom(LastDoc, " {\n    __typename\n    ", 1)
       IN /\ spread > 0
          /\ SubSeq(LastDoc, spread + 1, spread + Len(fragment)) = fragment
          /\ SubSeq(LastDoc, spread + Len(fragment) + 1, body - 1)
               = <<"\n    }\n}\n\nfragment ">> \o fragment \o <<" on ">> \o fragment
          /\ SubSeq(LastDoc, body, Len(LastDoc)) = <<" {\n    __typename\n    ", "\n}">>
          /\ Len(emitted_graphql_modules) = idx
          /\ Len(generated_client_impls) = idx
          /\ emitted_graphql_modules[idx] = to_snake_case(sanitize_name(LastField.name))
          /\ IdentAt(generated_client_impls[idx], 2) = emitted_graphql_modules[idx]

\* fields with a Scalar and with an Enum result, wrapped, have been processed
C10_Witness ==
  /\ JustProcessed
  /\ idx = 2
  /\ KindNamed(Leaf(fields[1].field.ty).name) = "SCALAR"
  /\ KindNamed(Leaf(LastField.ty).name) = "ENUM"
  /\ LastField.ty.tag = "List"
====
